---------------------------- MODULE Spec2Model ----------------------------
(***************************************************************************)
(* Model of md_to_latex.py: the MarkdownToLatexConverter class and the     *)
(* command line built on it.                                               *)
(*                                                                         *)
(* A text is a sequence of characters, each character a one-character      *)
(* string; a non-ASCII character is written as its code point, "U+2115".   *)
(* One behaviour is one call of a public operation of the module: `entry`  *)
(* names the operation that was called and `pc` the statement the call has *)
(* reached.  convert and main run the passes in the order of convert's     *)
(* body; a pass called on its own ends the behaviour when it returns.      *)
(***************************************************************************)
EXTENDS Integers, Sequences, FiniteSets, TLC

VARIABLES
    entry,                  \* the public operation that was called
    pc,                     \* the statement the call has reached
    input,                  \* the text argument of the call (for main: the file read)
    text,                   \* convert's local `text` / a pass's argument and result
    add_document_structure, \* convert's second parameter
    lines,                  \* convert_lists: lines
    i,                      \* convert_lists: number of lines processed so far
    result,                 \* convert_lists: result
    in_itemize,             \* convert_lists: in_itemize
    in_enumerate,           \* convert_lists: in_enumerate
    args,                   \* main: the parsed command line / convert_file's arguments
    fs,                     \* the file system: path -> content, or NoFile
    stdout,                 \* what was printed on standard output
    stderr,                 \* what was printed on standard error
    exc,                    \* the exception that left the call, if any
    exit_code               \* the process's exit code, NoExit while running

vars == << entry, pc, input, text, add_document_structure, lines, i, result,
           in_itemize, in_enumerate, args, fs, stdout, stderr, exc, exit_code >>

-----------------------------------------------------------------------------
(* Bounds of the model.                                                    *)

\* convert_lists called on its own: at most this many lines of ListLines
MaxLines == 3
\* leading spaces of a list line
MaxIndent == 4
\* convert_formatting called on its own: at most this many tokens
MaxSpans == 3
\* escape_latex_chars called on its own: texts of at most this length
MaxEscLen == 2
\* convert called on its own: at most this many lines of ConvLines
MaxConvLines == 2

-----------------------------------------------------------------------------
(* Strings.                                                                *)

RECURSIVE CatRange(_, _, _)
\* ''.join(parts[lo-1:hi]), joined half by half
CatRange(parts, lo, hi) ==
    IF lo > hi THEN << >>
    ELSE IF lo = hi THEN parts[lo]
    ELSE LET mid == (lo + hi) \div 2
         IN  CatRange(parts, lo, mid) \o CatRange(parts, mid + 1, hi)

\* ''.join(parts)
Cat(parts) == CatRange(parts, 1, Len(parts))

\* '\n'.join(ls)
Join(ls) ==
    Cat([k \in 1..(2 * Len(ls) - 1) |-> IF k % 2 = 1 THEN ls[(k + 1) \div 2] ELSE << "\n" >>])

\* the least element of a non-empty set of numbers
Min(S) == CHOOSE x \in S : \A y \in S : x <= y

\* the greatest element of a non-empty set of numbers
Max(S) == CHOOSE x \in S : \A y \in S : y <= x

\* the positions of character c in s, from position k on
Positions(s, k, c) == { q \in k..Len(s) : s[q] = c }

RECURSIVE SplitFrom(_, _)
\* text.split('\n'), from position k on: one line per newline and the rest
SplitFrom(s, k) ==
    IF Positions(s, k, "\n") = { }
    THEN << SubSeq(s, k, Len(s)) >>
    ELSE LET q == Min(Positions(s, k, "\n"))
         IN  << SubSeq(s, k, q - 1) >> \o SplitFrom(s, q + 1)

Split(s) == SplitFrom(s, 1)

\* s * n
Repeat(s, n) == Cat([k \in 1..n |-> s])

\* text.replace(c, rep) for a one-character c
ReplaceChar(s, c, rep) ==
    Cat([k \in 1..Len(s) |-> IF s[k] = c THEN rep ELSE << s[k] >>])

\* s[k:].startswith(p), k counted from 1
StartsAt(s, k, p) ==
    /\ k + Len(p) - 1 <= Len(s)
    /\ \A j \in 1..Len(p) : s[k + j - 1] = p[j]

\* the characters the regular expression class \s matches
Whitespace == { " ", "\t", "\n", "\r", "\f" }

\* the characters the regular expression class \d matches
Digits == { "0", "1", "2", "3", "4", "5", "6", "7", "8", "9" }

-----------------------------------------------------------------------------
(* __init__: the table of symbols, in the order the dict holds them.      *)

unicode_keys ==
    << "U+2115", "U+2124", "U+211A", "U+211D", "U+2102", "U+2205", "U+2208", "U+2209",
    "U+2286", "U+2282", "U+2287", "U+2283", "U+222A", "U+2229", "U+2216", "U+25B3", "U+00D7",
    "U+2227", "U+2228", "U+00AC", "U+2192", "U+2194", "U+2200", "U+2203", "U+2204", "U+2264",
    "U+2265", "U+2260", "U+2261", "U+2248", "U+221E", "U+2211", "U+220F", "U+222B", "U+2202",
    "U+2207", "U+03B1", "U+03B2", "U+03B3", "U+03B4", "U+03B5", "U+03B6", "U+03B7", "U+03B8",
    "U+03B9", "U+03BA", "U+03BB", "U+03BC", "U+03BD", "U+03BE", "U+03C0", "U+03C1", "U+03C3",
    "U+03C4", "U+03C5", "U+03C6", "U+03C7", "U+03C8", "U+03C9", "U+0391", "U+0392", "U+0393",
    "U+0394", "U+0395", "U+0396", "U+0397", "U+0398", "U+0399", "U+039A", "U+039B", "U+039C",
    "U+039D", "U+039E", "U+03A0", "U+03A1", "U+03A3", "U+03A4", "U+03A5", "U+03A6", "U+03A7",
    "U+03A8", "U+03A9" >>

unicode_map(k) ==
    CASE k = "U+2115" -> <<"\\", "m", "a", "t", "h", "b", "b", "{", "N", "}">>
      [] k = "U+2124" -> <<"\\", "m", "a", "t", "h", "b", "b", "{", "Z", "}">>
      [] k = "U+211A" -> <<"\\", "m", "a", "t", "h", "b", "b", "{", "Q", "}">>
      [] k = "U+211D" -> <<"\\", "m", "a", "t", "h", "b", "b", "{", "R", "}">>
      [] k = "U+2102" -> <<"\\", "m", "a", "t", "h", "b", "b", "{", "C", "}">>
      [] k = "U+2205" -> <<"\\", "e", "m", "p", "t", "y", "s", "e", "t">>
      [] k = "U+2208" -> <<"\\", "i", "n">>
      [] k = "U+2209" -> <<"\\", "n", "o", "t", "i", "n">>
      [] k = "U+2286" -> <<"\\", "s", "u", "b", "s", "e", "t", "e", "q">>
      [] k = "U+2282" -> <<"\\", "s", "u", "b", "s", "e", "t">>
      [] k = "U+2287" -> <<"\\", "s", "u", "p", "s", "e", "t", "e", "q">>
      [] k = "U+2283" -> <<"\\", "s", "u", "p", "s", "e", "t">>
      [] k = "U+222A" -> <<"\\", "c", "u", "p">>
      [] k = "U+2229" -> <<"\\", "c", "a", "p">>
      [] k = "U+2216" -> <<"\\", "s", "e", "t", "m", "i", "n", "u", "s">>
      [] k = "U+25B3" -> <<"\\", "t", "r", "i", "a", "n", "g", "l", "e">>
      [] k = "U+00D7" -> <<"\\", "t", "i", "m", "e", "s">>
      [] k = "U+2227" -> <<"\\", "l", "a", "n", "d">>
      [] k = "U+2228" -> <<"\\", "l", "o", "r">>
      [] k = "U+00AC" -> <<"\\", "n", "e", "g">>
      [] k = "U+2192" -> <<"\\", "r", "i", "g", "h", "t", "a", "r", "r", "o", "w">>
      [] k = "U+2194" -> <<"\\", "l", "e", "f", "t", "r", "i", "g", "h", "t", "a", "r", "r", "o", "w">>
      [] k = "U+2200" -> <<"\\", "f", "o", "r", "a", "l", "l">>
      [] k = "U+2203" -> <<"\\", "e", "x", "i", "s", "t", "s">>
      [] k = "U+2204" -> <<"\\", "n", "e", "x", "i", "s", "t", "s">>
      [] k = "U+2264" -> <<"\\", "l", "e", "q">>
      [] k = "U+2265" -> <<"\\", "g", "e", "q">>
      [] k = "U+2260" -> <<"\\", "n", "e", "q">>
      [] k = "U+2261" -> <<"\\", "e", "q", "u", "i", "v">>
      [] k = "U+2248" -> <<"\\", "a", "p", "p", "r", "o", "x">>
      [] k = "U+221E" -> <<"\\", "i", "n", "f", "t", "y">>
      [] k = "U+2211" -> <<"\\", "s", "u", "m">>
      [] k = "U+220F" -> <<"\\", "p", "r", "o", "d">>
      [] k = "U+222B" -> <<"\\", "i", "n", "t">>
      [] k = "U+2202" -> <<"\\", "p", "a", "r", "t", "i", "a", "l">>
      [] k = "U+2207" -> <<"\\", "n", "a", "b", "l", "a">>
      [] k = "U+03B1" -> <<"\\", "a", "l", "p", "h", "a">>
      [] k = "U+03B2" -> <<"\\", "b", "e", "t", "a">>
      [] k = "U+03B3" -> <<"\\", "g", "a", "m", "m", "a">>
      [] k = "U+03B4" -> <<"\\", "d", "e", "l", "t", "a">>
      [] k = "U+03B5" -> <<"\\", "e", "p", "s", "i", "l", "o", "n">>
      [] k = "U+03B6" -> <<"\\", "z", "e", "t", "a">>
      [] k = "U+03B7" -> <<"\\", "e", "t", "a">>
      [] k = "U+03B8" -> <<"\\", "t", "h", "e", "t", "a">>
      [] k = "U+03B9" -> <<"\\", "i", "o", "t", "a">>
      [] k = "U+03BA" -> <<"\\", "k", "a", "p", "p", "a">>
      [] k = "U+03BB" -> <<"\\", "l", "a", "m", "b", "d", "a">>
      [] k = "U+03BC" -> <<"\\", "m", "u">>
      [] k = "U+03BD" -> <<"\\", "n", "u">>
      [] k = "U+03BE" -> <<"\\", "x", "i">>
      [] k = "U+03C0" -> <<"\\", "p", "i">>
      [] k = "U+03C1" -> <<"\\", "r", "h", "o">>
      [] k = "U+03C3" -> <<"\\", "s", "i", "g", "m", "a">>
      [] k = "U+03C4" -> <<"\\", "t", "a", "u">>
      [] k = "U+03C5" -> <<"\\", "u", "p", "s", "i", "l", "o", "n">>
      [] k = "U+03C6" -> <<"\\", "p", "h", "i">>
      [] k = "U+03C7" -> <<"\\", "c", "h", "i">>
      [] k = "U+03C8" -> <<"\\", "p", "s", "i">>
      [] k = "U+03C9" -> <<"\\", "o", "m", "e", "g", "a">>
      [] k = "U+0391" -> <<"\\", "A", "l", "p", "h", "a">>
      [] k = "U+0392" -> <<"\\", "B", "e", "t", "a">>
      [] k = "U+0393" -> <<"\\", "G", "a", "m", "m", "a">>
      [] k = "U+0394" -> <<"\\", "D", "e", "l", "t", "a">>
      [] k = "U+0395" -> <<"\\", "E", "p", "s", "i", "l", "o", "n">>
      [] k = "U+0396" -> <<"\\", "Z", "e", "t", "a">>
      [] k = "U+0397" -> <<"\\", "E", "t", "a">>
      [] k = "U+0398" -> <<"\\", "T", "h", "e", "t", "a">>
      [] k = "U+0399" -> <<"\\", "I", "o", "t", "a">>
      [] k = "U+039A" -> <<"\\", "K", "a", "p", "p", "a">>
      [] k = "U+039B" -> <<"\\", "L", "a", "m", "b", "d", "a">>
      [] k = "U+039C" -> <<"\\", "M", "u">>
      [] k = "U+039D" -> <<"\\", "N", "u">>
      [] k = "U+039E" -> <<"\\", "X", "i">>
      [] k = "U+03A0" -> <<"\\", "P", "i">>
      [] k = "U+03A1" -> <<"\\", "R", "h", "o">>
      [] k = "U+03A3" -> <<"\\", "S", "i", "g", "m", "a">>
      [] k = "U+03A4" -> <<"\\", "T", "a", "u">>
      [] k = "U+03A5" -> <<"\\", "U", "p", "s", "i", "l", "o", "n">>
      [] k = "U+03A6" -> <<"\\", "P", "h", "i">>
      [] k = "U+03A7" -> <<"\\", "C", "h", "i">>
      [] k = "U+03A8" -> <<"\\", "P", "s", "i">>
      [] k = "U+03A9" -> <<"\\", "O", "m", "e", "g", "a">>

\* add_latex_preamble: preamble
preamble ==
    << "\\", "d", "o", "c", "u", "m", "e", "n", "t", "c", "l", "a", "s", "s", "{", "a", "r",
    "t", "i", "c", "l", "e", "}", "\n", "\\", "u", "s", "e", "p", "a", "c", "k", "a", "g", "e",
    "[", "u", "t", "f", "8", "]", "{", "i", "n", "p", "u", "t", "e", "n", "c", "}", "\n", "\\",
    "u", "s", "e", "p", "a", "c", "k", "a", "g", "e", "{", "a", "m", "s", "m", "a", "t", "h",
    "}", "\n", "\\", "u", "s", "e", "p", "a", "c", "k", "a", "g", "e", "{", "a", "m", "s", "f",
    "o", "n", "t", "s", "}", "\n", "\\", "u", "s", "e", "p", "a", "c", "k", "a", "g", "e", "{",
    "a", "m", "s", "s", "y", "m", "b", "}", "\n", "\\", "u", "s", "e", "p", "a", "c", "k", "a",
    "g", "e", "[", "n", "o", "r", "m", "a", "l", "e", "m", "]", "{", "u", "l", "e", "m", "}",
    "\n", "\n", "\\", "b", "e", "g", "i", "n", "{", "d", "o", "c", "u", "m", "e", "n", "t",
    "}", "\n", "\n" >>

\* add_latex_preamble: postamble
postamble ==
    << "\n", "\\", "e", "n", "d", "{", "d", "o", "c", "u", "m", "e", "n", "t", "}" >>

\* str(n * 0.3): the shortest decimal that reads back as the double n * 0.3
HspaceWidth(n) ==
    CASE n = 2 -> <<"0", ".", "6">>
      [] n = 3 -> <<"0", ".", "8", "9", "9", "9", "9", "9", "9", "9", "9", "9", "9", "9", "9", "9", "9", "9">>
      [] n = 4 -> <<"1", ".", "2">>
      [] n = 5 -> <<"1", ".", "5">>
      [] n = 6 -> <<"1", ".", "7", "9", "9", "9", "9", "9", "9", "9", "9", "9", "9", "9", "9", "9", "9", "8">>
      [] n = 7 -> <<"2", ".", "1">>
      [] n = 8 -> <<"2", ".", "4">>
      [] n = 9 -> <<"2", ".", "6", "9", "9", "9", "9", "9", "9", "9", "9", "9", "9", "9", "9", "9", "9", "7">>
      [] n = 10 -> <<"3", ".", "0">>
      [] n = 11 -> <<"3", ".", "3">>
      [] n = 12 -> <<"3", ".", "5", "9", "9", "9", "9", "9", "9", "9", "9", "9", "9", "9", "9", "9", "9", "6">>
      [] n = 13 -> <<"3", ".", "9">>
      [] n = 14 -> <<"4", ".", "2">>
      [] n = 15 -> <<"4", ".", "5">>
      [] n = 16 -> <<"4", ".", "8">>

-----------------------------------------------------------------------------
(* convert_unicode_chars                                                   *)

RECURSIVE ConvertUnicodeFrom(_, _)
\* the loop over unicode_map.items(), from the n-th key on: replacing a key the
\* text does not hold changes nothing, so the loop is taken at the next key
\* that the text holds
ConvertUnicodeFrom(s, n) ==
    LET held == { m \in n..Len(unicode_keys) : Positions(s, 1, unicode_keys[m]) # { } }
    IN  IF held = { } THEN s
        ELSE LET m == Min(held)
             IN  ConvertUnicodeFrom(
                     ReplaceChar(s, unicode_keys[m],
                                 << "$" >> \o unicode_map(unicode_keys[m]) \o << "$" >>),
                     m + 1)

convert_unicode_chars(s) == ConvertUnicodeFrom(s, 1)

-----------------------------------------------------------------------------
(* convert_headings                                                        *)

\* one line under re.sub(r'^<hashes> (.+)$', r'\\<cmd>{\1}', flags=re.MULTILINE):
\* ^ and $ match at the ends of every line and . matches no newline, so a match
\* is a whole line: the hashes, one space and at least one more character
HeadingLine(line, hashes, cmd) ==
    IF StartsAt(line, 1, hashes \o << " " >>) /\ Len(line) >= Len(hashes) + 2
    THEN cmd \o << "{" >> \o SubSeq(line, Len(hashes) + 2, Len(line)) \o << "}" >>
    ELSE line

HeadingSub(s, hashes, cmd) ==
    LET ls == Split(s)
    IN  Join([k \in 1..Len(ls) |-> HeadingLine(ls[k], hashes, cmd)])

convert_headings(s) ==
    LET t1 == HeadingSub(s,  <<"#">>,     <<"\\", "s", "e", "c", "t", "i", "o", "n">>)
        t2 == HeadingSub(t1, <<"#", "#">>,    <<"\\", "s", "u", "b", "s", "e", "c", "t", "i", "o", "n">>)
        t3 == HeadingSub(t2, <<"#", "#", "#">>,   <<"\\", "s", "u", "b", "s", "u", "b", "s", "e", "c", "t", "i", "o", "n">>)
        t4 == HeadingSub(t3, <<"#", "#", "#", "#">>,  <<"\\", "p", "a", "r", "a", "g", "r", "a", "p", "h">>)
        t5 == HeadingSub(t4, <<"#", "#", "#", "#", "#">>, <<"\\", "s", "u", "b", "p", "a", "r", "a", "g", "r", "a", "p", "h">>)
    IN  t5

-----------------------------------------------------------------------------
(* convert_formatting                                                      *)

\* a delimited-span pattern  (?<!nb) open (C+?) close (?!na)  : `excl` are the
\* characters the class C does not match, nb / na the character that must not
\* stand before / after the match ("" when the pattern has no such lookaround)
Pattern(open, close, excl, nb, na) ==
    [ open |-> open, close |-> close, excl |-> excl, nb |-> nb, na |-> na ]

\* the lengths the lazy group can take for a match of p that starts at k
GroupLengths(s, k, p) ==
    LET j == k + Len(p.open)
    IN  { n \in 1..(Len(s) - j + 1) :
            /\ \A q \in j..(j + n - 1) : s[q] \notin p.excl
            /\ StartsAt(s, j + n, p.close)
            /\ \/ p.na = ""
               \/ j + n + Len(p.close) > Len(s)
               \/ s[j + n + Len(p.close)] # p.na }

\* whether p matches at position k
MatchesAt(s, k, p) ==
    /\ p.nb = "" \/ k = 1 \/ s[k - 1] # p.nb
    /\ StartsAt(s, k, p.open)
    /\ GroupLengths(s, k, p) # { }

\* the quantifier of the group made greedy: (.+) in place of (.+?)
GroupLenGreedy(s, k, p) == Max(GroupLengths(s, k, p))

\* the length of group 1 of the match at k: the lazy quantifier takes the
\* shortest length that lets the rest of the pattern match
GroupLen(s, k, p) == Min(GroupLengths(s, k, p))

RECURSIVE SubFrom(_, _, _, _)
\* re.sub(p, r'\\cmd{\1}', s) from position k on: the leftmost match at or after
\* k is replaced and the scan goes on behind it
SubFrom(s, k, p, cmd) ==
    LET starts == { q \in k..Len(s) : MatchesAt(s, q, p) }
    IN  IF starts = { } THEN SubSeq(s, k, Len(s))
        ELSE LET q == Min(starts)
                 j == q + Len(p.open)
                 n == GroupLen(s, q, p)
             IN  SubSeq(s, k, q - 1)
                     \o cmd \o << "{" >> \o SubSeq(s, j, j + n - 1) \o << "}" >>
                     \o SubFrom(s, j + n + Len(p.close), p, cmd)

Sub(s, p, cmd) == SubFrom(s, 1, p, cmd)

BoldStar   == Pattern(<<"*", "*">>, <<"*", "*">>, { "\n" }, "", "")
BoldUnder  == Pattern(<<"_", "_">>, <<"_", "_">>, { "\n" }, "", "")
ItalicStar  == Pattern(<<"*">>, <<"*">>, { "*" }, "*", "*")
ItalicUnder == Pattern(<<"_">>, <<"_">>, { "_" }, "_", "_")
Underline   == Pattern(<<"<", "u", ">">>, <<"<", "/", "u", ">">>, { "\n" }, "", "")
Superscript == Pattern(<<"^">>, <<"^">>, { "\n" }, "", "")
Subscript   == Pattern(<<"~">>, <<"~">>, { "\n" }, "", "")

convert_formatting(s) ==
    LET t1 == Sub(s,  BoldStar,    <<"\\", "t", "e", "x", "t", "b", "f">>)
        t2 == Sub(t1, BoldUnder,   <<"\\", "t", "e", "x", "t", "b", "f">>)
        t3 == Sub(t2, ItalicStar,  <<"\\", "t", "e", "x", "t", "i", "t">>)
        t4 == Sub(t3, ItalicUnder, <<"\\", "t", "e", "x", "t", "i", "t">>)
        t5 == Sub(t4, Underline,   <<"\\", "u", "n", "d", "e", "r", "l", "i", "n", "e">>)
        t6 == Sub(t5, Superscript, <<"\\", "t", "e", "x", "t", "s", "u", "p", "e", "r", "s", "c", "r", "i", "p", "t">>)
        t7 == Sub(t6, Subscript,   <<"\\", "t", "e", "x", "t", "s", "u", "b", "s", "c", "r", "i", "p", "t">>)
    IN  t7

-----------------------------------------------------------------------------
(* convert_lists                                                           *)

RECURSIVE RunLength(_, _, _)
\* how many characters from position k on are in `class` (a greedy C*)
RunLength(s, k, class) ==
    IF k <= Len(s) /\ s[k] \in class THEN 1 + RunLength(s, k + 1, class) ELSE 0

\* re.match(r'^(\s*)[*+-] (.+)', line): no whitespace is a marker, so the greedy
\* \s* keeps the whole leading whitespace
BulletMatch(line) ==
    LET w == RunLength(line, 1, Whitespace)
    IN  /\ Len(line) >= w + 3
        /\ line[w + 1] \in { "*", "+", "-" }
        /\ line[w + 2] = " "

\* re.match(r'^(\s*)\d+\. (.+)', line)
NumberedMatch(line) ==
    LET w == RunLength(line, 1, Whitespace)
        d == RunLength(line, w + 1, Digits)
    IN  /\ d >= 1
        /\ Len(line) >= w + d + 3
        /\ line[w + d + 1] = "."
        /\ line[w + d + 2] = " "

\* match.group(1) and match.group(2) of the bullet pattern
BulletGroups(line) ==
    LET w == RunLength(line, 1, Whitespace)
    IN  [ g1 |-> SubSeq(line, 1, w), g2 |-> SubSeq(line, w + 3, Len(line)) ]

\* match.group(1) and match.group(2) of the numbered pattern
NumberedGroups(line) ==
    LET w == RunLength(line, 1, Whitespace)
        d == RunLength(line, w + 1, Digits)
    IN  [ g1 |-> SubSeq(line, 1, w), g2 |-> SubSeq(line, w + d + 3, Len(line)) ]

BeginItemize   == <<"\\", "b", "e", "g", "i", "n", "{", "i", "t", "e", "m", "i", "z", "e", "}">>
EndItemize     == <<"\\", "e", "n", "d", "{", "i", "t", "e", "m", "i", "z", "e", "}">>
BeginEnumerate == <<"\\", "b", "e", "g", "i", "n", "{", "e", "n", "u", "m", "e", "r", "a", "t", "e", "}">>
EndEnumerate   == <<"\\", "e", "n", "d", "{", "e", "n", "u", "m", "e", "r", "a", "t", "e", "}">>

\* the indent level without the division by 2
IndentLevelNoDiv(g1) == Len(g1)

\* indent_level = len(match.group(1)) // 2
IndentLevel(g1) == Len(g1) \div 2

\* '  ' * indent_level + f'\\item {item_text}'
ItemLine(g) ==
    Repeat(<<" ", " ">>, IndentLevel(g.g1)) \o <<"\\", "i", "t", "e", "m", " ">> \o g.g2

\* the state of the loop: the locals result, in_itemize, in_enumerate
ListState(r, it, en) == [ result |-> r, in_itemize |-> it, in_enumerate |-> en ]

\* the bullet branch without `in_enumerate = False`
BulletBranchKeepsEnumerate(line, st) ==
    LET r1 == IF ~st.in_itemize THEN Append(st.result, BeginItemize) ELSE st.result
        r2 == IF st.in_enumerate THEN Append(r1, EndEnumerate) ELSE r1
    IN  ListState(Append(r2, ItemLine(BulletGroups(line))), TRUE, st.in_enumerate)

\* the branch of a bullet line
BulletBranch(line, st) ==
    LET r1 == IF ~st.in_itemize THEN Append(st.result, BeginItemize) ELSE st.result
        r2 == IF st.in_enumerate THEN Append(r1, EndEnumerate) ELSE r1
    IN  ListState(Append(r2, ItemLine(BulletGroups(line))), TRUE, FALSE)

\* the branch of a numbered line
NumberedBranch(line, st) ==
    LET r1 == IF ~st.in_enumerate THEN Append(st.result, BeginEnumerate) ELSE st.result
        r2 == IF st.in_itemize THEN Append(r1, EndItemize) ELSE r1
    IN  ListState(Append(r2, ItemLine(NumberedGroups(line))), FALSE, TRUE)

\* the branch of any other line
OtherBranch(line, st) ==
    LET r1 == IF st.in_itemize THEN Append(st.result, EndItemize) ELSE st.result
        r2 == IF st.in_enumerate THEN Append(r1, EndEnumerate) ELSE r1
    IN  ListState(Append(r2, line), FALSE, FALSE)

\* one iteration of the while loop
ListStep(line, st) ==
    IF BulletMatch(line) THEN BulletBranch(line, st)
    ELSE IF NumberedMatch(line) THEN NumberedBranch(line, st)
    ELSE OtherBranch(line, st)

\* the end of convert_lists without the closing of open lists
CloseRemainingNone(st) == st.result

\* after the loop: close any remaining open lists
CloseRemaining(st) ==
    LET r1 == IF st.in_itemize THEN Append(st.result, EndItemize) ELSE st.result
        r2 == IF st.in_enumerate THEN Append(r1, EndEnumerate) ELSE r1
    IN  r2

-----------------------------------------------------------------------------
(* preserve_whitespace                                                     *)

\* the tab size given to expandtabs
TabSize == 4

\* the column after the characters s[k..q-1], none of them a tab, when s[k] is
\* in column col: a newline or carriage return starts the count again
ColumnAfter(s, k, q, col) ==
    LET breaks == { b \in k..(q - 1) : s[b] \in { "\n", "\r" } }
    IN  IF breaks = { } THEN col + (q - k) ELSE q - 1 - Max(breaks)

RECURSIVE ExpandTabsFrom(_, _, _)
\* text.expandtabs(TabSize) from position k on, `col` the current column
ExpandTabsFrom(s, k, col) ==
    IF Positions(s, k, "\t") = { } THEN SubSeq(s, k, Len(s))
    ELSE LET q == Min(Positions(s, k, "\t"))
             c == ColumnAfter(s, k, q, col)
             n == TabSize - (c % TabSize)
         IN  SubSeq(s, k, q - 1) \o Repeat(<< " " >>, n) \o ExpandTabsFrom(s, q + 1, c + n)

RECURSIVE SpaceRunsFrom(_, _)
\* re.sub(r' {2,}', lambda m: '\\hspace{' + str(len(m.group(0)) * 0.3) + 'em}', text)
\* from position k on
SpaceRunsFrom(s, k) ==
    LET starts == { q \in k..(Len(s) - 1) : s[q] = " " /\ s[q + 1] = " " }
    IN  IF starts = { } THEN SubSeq(s, k, Len(s))
        ELSE LET q == Min(starts)
                 n == RunLength(s, q, { " " })
             IN  SubSeq(s, k, q - 1)
                     \o <<"\\", "h", "s", "p", "a", "c", "e", "{">> \o HspaceWidth(n) \o <<"e", "m", "}">>
                     \o SpaceRunsFrom(s, q + n)

preserve_whitespace(s) == SpaceRunsFrom(ExpandTabsFrom(s, 1, 0), 1)

-----------------------------------------------------------------------------
(* handle_blank_lines                                                      *)

\* the newlines of the whitespace run that starts at position k
RunNewlines(s, k) ==
    { q \in k..(k + RunLength(s, k, Whitespace) - 1) : s[q] = "\n" }

RECURSIVE BlankLinesFrom(_, _)
\* re.sub(r'\n\s*\n\s*\n+', r'\n\n\\vspace{\\baselineskip}\n\n', text) from
\* position k on: a match starts at a newline whose whitespace run holds two
\* more newlines, and the greedy \s* carry it to the last newline of the run
BlankLinesFrom(s, k) ==
    LET starts == { q \in Positions(s, k, "\n") : Cardinality(RunNewlines(s, q)) >= 3 }
    IN  IF starts = { } THEN SubSeq(s, k, Len(s))
        ELSE LET q == Min(starts)
             IN  SubSeq(s, k, q - 1)
                     \o <<"\n", "\n", "\\", "v", "s", "p", "a", "c", "e", "{", "\\", "b", "a", "s", "e", "l", "i", "n", "e", "s", "k", "i", "p", "}", "\n", "\n">>
                     \o BlankLinesFrom(s, Max(RunNewlines(s, q)) + 1)

handle_blank_lines(s) == BlankLinesFrom(s, 1)

-----------------------------------------------------------------------------
(* escape_latex_chars                                                      *)

\* escape_chars.items(), in the order the dict holds them
escape_chars ==
    << << "&",  <<"\\", "&">> >>,
       << "%",  <<"\\", "%">> >>,
       << "$",  <<"\\", "$">> >>,
       << "#",  <<"\\", "#">> >>,
       << "^",  <<"\\", "t", "e", "x", "t", "a", "s", "c", "i", "i", "c", "i", "r", "c", "u", "m", "{", "}">> >>,
       << "_",  <<"\\", "_">> >>,
       << "{",  <<"\\", "{">> >>,
       << "}",  <<"\\", "}">> >>,
       << "~",  <<"\\", "t", "e", "x", "t", "a", "s", "c", "i", "i", "t", "i", "l", "d", "e", "{", "}">> >>,
       << "\\", <<"\\", "t", "e", "x", "t", "b", "a", "c", "k", "s", "l", "a", "s", "h", "{", "}">> >> >>

\* the characters the loop skips
EscapeSkipped == { "$", "^", "_", "~" }

RECURSIVE EscapeFrom(_, _)
\* the loop over escape_chars.items(), from the n-th item on
EscapeFrom(s, n) ==
    IF n > Len(escape_chars) THEN s
    ELSE IF escape_chars[n][1] \in EscapeSkipped THEN EscapeFrom(s, n + 1)
    ELSE EscapeFrom(ReplaceChar(s, escape_chars[n][1], escape_chars[n][2]), n + 1)

escape_latex_chars(s) == EscapeFrom(s, 1)

-----------------------------------------------------------------------------
(* add_latex_preamble                                                      *)

add_latex_preamble(content) == preamble \o content \o postamble

-----------------------------------------------------------------------------
(* Files, paths and the command line.                                      *)

\* a pathlib.Path within one directory: the name without its suffix, and the suffix
Path(stem, suffix) == [ stem |-> stem, suffix |-> suffix ]

\* Path.with_suffix(suffix)
with_suffix(p, suffix) == [ p EXCEPT !.suffix = suffix ]

\* Path.exists(): the file system maps the paths that exist to their content
exists(f, p) == p \in DOMAIN f

\* open(p, 'w') ... f.write(content): the file is created or replaced
write_file(f, p, content) ==
    [ q \in DOMAIN f \cup { p } |-> IF q = p THEN content ELSE f[q] ]

\* an optional value: None is << >>, a value v is << v >>
None == << >>
Some(v) == << v >>

\* a or b, for optional values
Or(a, b) == IF a # None THEN a ELSE b

\* the parameters of convert_file after self
convert_file_params == << "input_path", "output_path" >>

\* the handler without sys.exit(1): the process ends with exit code 0
HandlerExitZero(err, e) ==
    [ stderr |-> Append(err, [ error |-> e ]), exit_code |-> Some(0) ]

\* the handler of main's try block: the message goes to stderr, the exit code is 1
Handler(err, e) ==
    [ stderr |-> Append(err, [ error |-> e ]), exit_code |-> Some(1) ]

-----------------------------------------------------------------------------
(* The texts and command lines the operations are called with.             *)

\* all sequences over S of length lo..hi
Seqs(S, lo, hi) == UNION { [1..n -> S] : n \in lo..hi }

NotesMd    == Path("notes", ".md")
MissingMd  == Path("missing", ".md")
OutTex     == Path("out", ".tex")
OptTex     == Path("opt", ".tex")
TemplateTex == Path("template", ".tex")

\* a text with a heading, emphasis, a symbol, a bullet list and a numbered list
EndToEnd ==
    Join(<< <<"#", " ", "T", "i", "t", "l", "e">>, <<"*", "*", "b", "o", "l", "d", "*", "*", " ", "a", "n", "d", " ", "*", "i", "t", "a", "l", "i", "c", "*", " ">> \o << "U+2115" >>,
            <<"-", " ", "i", "t", "e", "m", "1">>, <<"-", " ", "i", "t", "e", "m", "2">>, <<"1", ".", " ", "f", "i", "r", "s", "t">> >>)

\* two paragraphs with two blank lines between them
BlankRun == <<"a", "\n", "\n", " ", "\n", "b">>

\* lines given to convert_lists
ListLines ==
    { Repeat(<< " " >>, w) \o <<"-", " ", "a">> : w \in 0..MaxIndent }
        \cup { <<"*", " ", "a">>, <<"1", ".", " ", "b">>, <<" ", " ", " ", "1", "2", ".", " ", "b">>, << "\t" >> \o <<"+", " ", "a">>,
               <<"a">>, << >>, <<"-", "a">> }

ListInputs == { Join(ls) : ls \in Seqs(ListLines, 1, MaxLines) }

\* the pieces of a text given to convert_formatting: plain text, or a span
\* written with `delim` doubled (bold) or single (italic) around `body`
Token(kind, delim, body) == [ kind |-> kind, delim |-> delim, body |-> body ]

Tokens ==
    { Token("plain", "", <<"a">>), Token("plain", "", <<" ">>),
      Token("bold", "*", <<"b">>), Token("bold", "_", <<"b">>),
      Token("italic", "*", <<"c">>), Token("italic", "_", <<"c">>) }

\* a token as it is written in the input
TokenText(t) ==
    LET d == IF t.kind = "bold" THEN << t.delim, t.delim >>
             ELSE IF t.kind = "italic" THEN << t.delim >>
             ELSE << >>
    IN  d \o t.body \o d

TokensText(ts) == Cat([k \in 1..Len(ts) |-> TokenText(ts[k])])

TokenSeqs == Seqs(Tokens, 0, MaxSpans)

FormattingInputs == { TokensText(ts) : ts \in TokenSeqs }

EscapeAlphabet == { "&", "%", "#", "{", "}", "\\", "$", "^", "_", "~", "a" }

EscapeInputs == Seqs(EscapeAlphabet, 0, MaxEscLen)

\* lines given to convert
ConvLines ==
    { <<"#", " ", "T">>, <<"*", "*", "a", "*", "*", " ", "*", "b", "*">>, <<"*", " ", "a">>, <<" ", " ", "*", " ", "b">>, <<"-", " ", "i">>, <<"1", ".", " ", "f">>, <<"a", " ", "&", " ", "b">>,
      <<"a", " ", " ", "b">>, << "\t", "x" >>, << "U+03B1" >>, << >> }

ConvertInputs ==
    { << unicode_keys[k] >> : k \in 1..Len(unicode_keys) }
        \cup { Join(ls) : ls \in Seqs(ConvLines, 1, MaxConvLines) }
        \cup { EndToEnd, BlankRun }

\* what the input file holds
FileContents == { EndToEnd, BlankRun, <<"*", " ", "a", "\n", "*", " ", "b">>, <<"a", " ", "&", " ", "b">>, << >> }

\* the file systems a run starts in: the input file notes.md, and nothing else
FileSystems == { [ p \in { NotesMd } |-> c ] : c \in FileContents }

\* the namespace argparse returns
MainArgs ==
    [ input : { NotesMd, MissingMd },
      output : { None, Some(OutTex) },
      output_file : { None, Some(OptTex) },
      template : { None, Some(TemplateTex) },
      no_document : BOOLEAN ]

\* the arguments of a direct call of convert_file
ConvertFileArgs ==
    [ input_path : { NotesMd, MissingMd }, output_path : { None, Some(OutTex) } ]

-----------------------------------------------------------------------------
(* The state after construction and the call.                              *)

InitLocals ==
    /\ lines = << >>
    /\ i = 0
    /\ result = << >>
    /\ in_itemize = FALSE
    /\ in_enumerate = FALSE
    /\ stdout = << >>
    /\ stderr = << >>
    /\ exc = "none"
    /\ exit_code = None

InitText ==
    /\ entry \in { "convert", "convert_formatting", "convert_lists", "escape_latex_chars" }
    /\ text \in CASE entry = "convert" -> ConvertInputs
                  [] entry = "convert_formatting" -> FormattingInputs
                  [] entry = "convert_lists" -> ListInputs
                  [] entry = "escape_latex_chars" -> EscapeInputs
    /\ input = text
    /\ pc = IF entry = "convert" THEN "convert_unicode_chars" ELSE entry
    /\ add_document_structure \in IF entry = "convert" THEN BOOLEAN ELSE { FALSE }
    /\ args = [ input |-> None ]
    /\ fs = [ p \in { } |-> << >> ]

InitFile ==
    /\ entry \in { "main", "convert_file" }
    /\ args \in IF entry = "main" THEN MainArgs ELSE ConvertFileArgs
    /\ fs \in FileSystems
    /\ pc = entry
    /\ text = << >>
    /\ input = << >>
    /\ add_document_structure = FALSE

Init == InitLocals /\ (InitText \/ InitFile)

-----------------------------------------------------------------------------
(* convert: the passes in the order of its body.                           *)

\* where control goes when convert returns
ConvertReturn ==
    IF entry = "convert" THEN "done"
    ELSE IF entry = "main" /\ args.no_document THEN "main_output"
    ELSE "convert_file_write"

\* where control goes after a pass: a pass called on its own returns, inside
\* convert the next statement runs
After(pass, next) == IF entry = pass THEN "done" ELSE next

PassVars == << entry, input, add_document_structure, args, fs, stdout, stderr, exc, exit_code >>
ListVars == << lines, i, result, in_itemize, in_enumerate >>

\* Step 2: text = self.convert_unicode_chars(text)
ConvertUnicodeChars ==
    /\ pc = "convert_unicode_chars"
    /\ text' = convert_unicode_chars(text)
    /\ pc' = "convert_headings"
    /\ UNCHANGED << PassVars, ListVars >>

\* Step 3: text = self.convert_headings(text)
ConvertHeadings ==
    /\ pc = "convert_headings"
    /\ text' = convert_headings(text)
    /\ pc' = "convert_formatting"
    /\ UNCHANGED << PassVars, ListVars >>

\* Step 4: text = self.convert_formatting(text)
ConvertFormatting ==
    /\ pc = "convert_formatting"
    /\ text' = convert_formatting(text)
    /\ pc' = After("convert_formatting", "convert_lists")
    /\ UNCHANGED << PassVars, ListVars >>

\* Step 5, convert_lists up to the loop: split the text, start with no open list
ConvertListsEnter ==
    /\ pc = "convert_lists"
    /\ lines' = Split(text)
    /\ result' = << >>
    /\ in_itemize' = FALSE
    /\ in_enumerate' = FALSE
    /\ i' = 0
    /\ pc' = "lists_loop"
    /\ UNCHANGED << PassVars, text >>

\* one iteration of the loop: the line lines[i] of the code, i counted from 0
ConvertListsLine ==
    /\ pc = "lists_loop"
    /\ i < Len(lines)
    /\ LET st == ListStep(lines[i + 1], ListState(result, in_itemize, in_enumerate))
       IN  /\ result' = st.result
           /\ in_itemize' = st.in_itemize
           /\ in_enumerate' = st.in_enumerate
    /\ i' = i + 1
    /\ UNCHANGED << PassVars, text, lines, pc >>

\* after the loop: close what is open, join the lines, return
ConvertListsReturn ==
    /\ pc = "lists_loop"
    /\ i = Len(lines)
    /\ result' = CloseRemaining(ListState(result, in_itemize, in_enumerate))
    /\ text' = Join(result')
    /\ pc' = After("convert_lists", "preserve_whitespace")
    /\ UNCHANGED << PassVars, lines, i, in_itemize, in_enumerate >>

\* Step 6, first half: text = self.preserve_whitespace(text)
PreserveWhitespace ==
    /\ pc = "preserve_whitespace"
    /\ text' = preserve_whitespace(text)
    /\ pc' = "handle_blank_lines"
    /\ UNCHANGED << PassVars, ListVars >>

\* Step 6, second half: text = self.handle_blank_lines(text)
HandleBlankLines ==
    /\ pc = "handle_blank_lines"
    /\ text' = handle_blank_lines(text)
    /\ pc' = "escape_latex_chars"
    /\ UNCHANGED << PassVars, ListVars >>

\* Step 7: text = self.escape_latex_chars(text)
EscapeLatexChars ==
    /\ pc = "escape_latex_chars"
    /\ text' = escape_latex_chars(text)
    /\ pc' = After("escape_latex_chars", "add_latex_preamble")
    /\ UNCHANGED << PassVars, ListVars >>

\* Step 8 and the return: the wrapper, when asked for
AddLatexPreamble ==
    /\ pc = "add_latex_preamble"
    /\ text' = IF add_document_structure THEN add_latex_preamble(text) ELSE text
    /\ pc' = ConvertReturn
    /\ UNCHANGED << PassVars, ListVars >>

-----------------------------------------------------------------------------
(* convert_file                                                            *)

\* the path convert_file reads: its own argument, or the one main passed
ConvertFileInput == IF entry = "main" THEN args.input ELSE args.input_path

\* the path convert_file writes: the given one, else the input with suffix .tex
ConvertFileOutput ==
    LET given == IF entry = "main" THEN Or(args.output, args.output_file)
                 ELSE args.output_path
    IN  IF given = None THEN with_suffix(ConvertFileInput, ".tex") ELSE given[1]

\* convert_file up to the call of convert: a missing input raises, else the
\* file is read and converted with the wrapper (convert's default)
ConvertFile ==
    /\ pc = "convert_file"
    /\ IF ~exists(fs, ConvertFileInput)
       THEN /\ exc' = "FileNotFoundError"
            /\ pc' = IF entry = "main" THEN "except" ELSE "done"
            /\ UNCHANGED << text, input, add_document_structure >>
       ELSE /\ text' = fs[ConvertFileInput]
            /\ input' = fs[ConvertFileInput]
            /\ add_document_structure' = TRUE
            /\ pc' = "convert_unicode_chars"
            /\ exc' = exc
    /\ UNCHANGED << entry, args, fs, stdout, stderr, exit_code, ListVars >>

\* convert_file after the call of convert: write the file, print, return
ConvertFileWrite ==
    /\ pc = "convert_file_write"
    /\ fs' = write_file(fs, ConvertFileOutput, text)
    /\ stdout' = Append(stdout, [ converted |-> ConvertFileInput, to |-> ConvertFileOutput ])
    /\ exit_code' = IF entry = "main" THEN Some(0) ELSE exit_code
    /\ pc' = "done"
    /\ UNCHANGED << entry, input, text, add_document_structure, args, stderr, exc, ListVars >>

-----------------------------------------------------------------------------
(* main                                                                    *)

\* output_file = args.output or args.output_file
output_file == Or(args.output, args.output_file)

\* the positional arguments main gives convert_file
convert_file_call == << args.input, output_file, args.template >>

\* the branch of --no-document: open and read the input, then convert without
\* the wrapper; a missing input raises inside the try block
MainNoDocument ==
    /\ pc = "main"
    /\ args.no_document
    /\ IF ~exists(fs, args.input)
       THEN /\ exc' = "FileNotFoundError"
            /\ pc' = "except"
            /\ UNCHANGED << text, input >>
       ELSE /\ text' = fs[args.input]
            /\ input' = fs[args.input]
            /\ pc' = "convert_unicode_chars"
            /\ exc' = exc
    /\ add_document_structure' = FALSE
    /\ UNCHANGED << entry, args, fs, stdout, stderr, exit_code, ListVars >>

\* the other branch: converter.convert_file(args.input, output_file, args.template);
\* a call with more positional arguments than parameters raises TypeError
\* before the body runs
MainConvertFile ==
    /\ pc = "main"
    /\ ~args.no_document
    /\ IF Len(convert_file_call) > Len(convert_file_params)
       THEN /\ exc' = "TypeError"
            /\ pc' = "except"
       ELSE /\ exc' = exc
            /\ pc' = "convert_file"
    /\ UNCHANGED << entry, input, text, add_document_structure, args, fs, stdout,
                    stderr, exit_code, ListVars >>

\* --no-document after the call of convert: write the file and report it, or
\* print the text; main returns and the process exits with 0
MainOutput ==
    /\ pc = "main_output"
    /\ IF output_file # None
       THEN /\ fs' = write_file(fs, output_file[1], text)
            /\ stdout' = Append(stdout, [ converted |-> args.input, to |-> output_file[1] ])
       ELSE /\ fs' = fs
            /\ stdout' = Append(stdout, text)
    /\ exit_code' = Some(0)
    /\ pc' = "done"
    /\ UNCHANGED << entry, input, text, add_document_structure, args, stderr, exc, ListVars >>

\* except Exception as e: print the error to stderr, sys.exit(1)
MainExcept ==
    /\ pc = "except"
    /\ stderr' = Handler(stderr, exc).stderr
    /\ exit_code' = Handler(stderr, exc).exit_code
    /\ pc' = "done"
    /\ UNCHANGED << entry, input, text, add_document_structure, args, fs, stdout, exc, ListVars >>

-----------------------------------------------------------------------------

Next ==
    \/ ConvertUnicodeChars
    \/ ConvertHeadings
    \/ ConvertFormatting
    \/ ConvertListsEnter
    \/ ConvertListsLine
    \/ ConvertListsReturn
    \/ PreserveWhitespace
    \/ HandleBlankLines
    \/ EscapeLatexChars
    \/ AddLatexPreamble
    \/ ConvertFile
    \/ ConvertFileWrite
    \/ MainNoDocument
    \/ MainConvertFile
    \/ MainOutput
    \/ MainExcept

Spec == Init /\ [][Next]_vars

-----------------------------------------------------------------------------
(* Properties.                                                             *)

\* whether p occurs in s
Occurs(s, p) == \E k \in 1..Len(s) : StartsAt(s, k, p)

\* how many of the first n lines of r are the line m
Count(r, n, m) == Cardinality({ k \in 1..n : r[k] = m })

\* how many blocks of the kind with markers b, e are open after the first n lines of r
Open(r, n, b, e) == Count(r, n, b) - Count(r, n, e)

ListMarkers == { BeginItemize, EndItemize, BeginEnumerate, EndEnumerate }

\* an output line that is an item: spaces, then the item command and a space
IsItemLine(l) == StartsAt(l, RunLength(l, 1, { " " }) + 1, <<"\\", "i", "t", "e", "m", " ">>)

\* an output line that is neither a marker nor an item
NonListOutput(l) == l \notin ListMarkers /\ ~IsItemLine(l)

\* the first w characters of l are whitespace
LeadingWhitespace(l, w) == \A q \in 1..w : l[q] \in Whitespace

\* C1: in the result of convert without the wrapper, the commands the earlier
\* passes emitted stand as emitted: a text that is one table symbol gives
\* exactly $command$, and a text without reserved characters gives a result in
\* which the escaping pass has rewritten no backslash and no brace.
C1_EmittedCommandsIntact ==
    (entry = "convert" /\ pc = "done" /\ ~add_document_structure) =>
        /\ \A k \in 1..Len(unicode_keys) :
               input = << unicode_keys[k] >> =>
                   text = << "$" >> \o unicode_map(unicode_keys[k]) \o << "$" >>
        /\ (\A q \in 1..Len(input) : input[q] \notin { "&", "%", "#", "{", "}", "\\" }) =>
               /\ ~Occurs(text, <<"\\", "t", "e", "x", "t", "b", "a", "c", "k", "s", "l", "a", "s", "h", "{", "}">>)
               /\ ~Occurs(text, <<"\\", "{">>)
               /\ ~Occurs(text, <<"\\", "}">>)

\* C2: a command-line run without --no-document on an existing input file ends
\* with the output file written (the given path, else the input path with
\* suffix .tex), nothing on stderr and exit code 0.
C2_DocumentRunSucceeds ==
    (entry = "main" /\ pc = "done" /\ ~args.no_document /\ exists(fs, args.input)) =>
        /\ exit_code = Some(0)
        /\ stderr = << >>
        /\ exists(fs, IF Or(args.output, args.output_file) = None
                      THEN with_suffix(args.input, ".tex")
                      ELSE Or(args.output, args.output_file)[1])

\* C3: the list pass never emits the begin marker of one list environment while
\* a block of the other kind is still open in the output.
C3_OtherBlockClosedFirst ==
    \A k \in 1..Len(result) :
        /\ result[k] = BeginEnumerate => Open(result, k - 1, BeginItemize, EndItemize) = 0
        /\ result[k] = BeginItemize => Open(result, k - 1, BeginEnumerate, EndEnumerate) = 0

\* C4: in the output of the list pass every opened block is closed exactly once:
\* after every prefix of the output at most one block of each kind is open and
\* never fewer than none, none is open where a non-list line is emitted, and
\* none is open when the pass has returned.
C4_BlocksClosed ==
    /\ \A n \in 0..Len(result) :
           /\ Open(result, n, BeginItemize, EndItemize) \in { 0, 1 }
           /\ Open(result, n, BeginEnumerate, EndEnumerate) \in { 0, 1 }
    /\ \A k \in 1..Len(result) :
           NonListOutput(result[k]) =>
               /\ Open(result, k - 1, BeginItemize, EndItemize) = 0
               /\ Open(result, k - 1, BeginEnumerate, EndEnumerate) = 0
    /\ pc # "lists_loop" =>
           /\ Open(result, Len(result), BeginItemize, EndItemize) = 0
           /\ Open(result, Len(result), BeginEnumerate, EndEnumerate) = 0

\* C4 witness: the pass has returned an output with a bullet block closed before
\* a non-list line and a numbered block closed by the end of the input.
C4_Witness ==
    /\ entry = "convert_lists" /\ pc = "done"
    /\ \E k \in 1..(Len(result) - 1) :
           result[k] = EndItemize /\ NonListOutput(result[k + 1])
    /\ result[Len(result)] = EndEnumerate

\* C5: a command-line run on an input path that does not exist, with or without
\* --no-document, creates and writes no file, prints nothing on stdout, never
\* exits with 0, and ends with a message on stderr and exit code 1.
C5_MissingInputFails ==
    (entry = "main" /\ args.input = MissingMd) =>
        /\ DOMAIN fs = { NotesMd }
        /\ fs[NotesMd] \in FileContents
        /\ stdout = << >>
        /\ exit_code # Some(0)
        /\ pc = "done" => (exit_code = Some(1) /\ stderr # << >>)

\* C5 witness: the run with --no-document on the missing path has ended.
C5_Witness ==
    /\ entry = "main" /\ args.input = MissingMd /\ args.no_document
    /\ pc = "done" /\ exc = "FileNotFoundError"
    /\ exit_code = Some(1) /\ Len(stderr) = 1

\* what the emphasis pass is to make of one token
TokenImage(t) ==
    IF t.kind = "bold" THEN <<"\\", "t", "e", "x", "t", "b", "f", "{">> \o t.body \o <<"}">>
    ELSE IF t.kind = "italic" THEN <<"\\", "t", "e", "x", "t", "i", "t", "{">> \o t.body \o <<"}">>
    ELSE t.body

TokensImage(ts) == Cat([k \in 1..Len(ts) |-> TokenImage(ts[k])])

\* no italic span is directly followed by a span written with the same character
NoItalicBeforeSameDelimiter(ts) ==
    \A k \in 1..(Len(ts) - 1) :
        (ts[k].kind = "italic" /\ ts[k + 1].kind # "plain") => ts[k].delim # ts[k + 1].delim

\* C6 as claimed: for every text made of plain text and bold and italic spans,
\* the emphasis pass turns each span into its command, in input order.
C6_EverySpanConverted ==
    (entry = "convert_formatting" /\ pc = "done") =>
        \A ts \in TokenSeqs : input = TokensText(ts) => text = TokensImage(ts)

\* C6 as amended: the same, for the texts in which no italic span is directly
\* followed by another span written with the same delimiter character.
C6_SeparatedSpansConverted ==
    (entry = "convert_formatting" /\ pc = "done") =>
        \A ts \in TokenSeqs :
            (input = TokensText(ts) /\ NoItalicBeforeSameDelimiter(ts)) =>
                text = TokensImage(ts)

\* C6 witness: '**b** *c*' has become a bold command, a space, an italic command.
C6_Witness ==
    /\ entry = "convert_formatting" /\ pc = "done"
    /\ input = <<"*", "*", "b", "*", "*", " ", "*", "c", "*">>
    /\ text = <<"\\", "t", "e", "x", "t", "b", "f", "{", "b", "}", " ", "\\", "t", "e", "x", "t", "i", "t", "{", "c", "}">>

\* C7: after a bullet or numbered line with leading whitespace of length w, the
\* line just emitted is 2 * (w div 2) spaces, the item command, one space and
\* the item text unchanged.
C7_ItemLine ==
    (pc = "lists_loop" /\ i >= 1) =>
        LET l == lines[i]
            emitted == result[Len(result)]
        IN  \A w \in 0..Len(l) :
                /\ ( /\ LeadingWhitespace(l, w)
                     /\ Len(l) >= w + 3
                     /\ l[w + 1] \in { "*", "+", "-" }
                     /\ l[w + 2] = " " ) =>
                       emitted = [q \in 1..(2 * (w \div 2)) |-> " "]
                                     \o <<"\\", "i", "t", "e", "m", " ">> \o SubSeq(l, w + 3, Len(l))
                /\ \A d \in 1..Len(l) :
                       ( /\ LeadingWhitespace(l, w)
                         /\ Len(l) >= w + d + 3
                         /\ \A q \in (w + 1)..(w + d) : l[q] \in Digits
                         /\ l[w + d + 1] = "."
                         /\ l[w + d + 2] = " " ) =>
                           emitted = [q \in 1..(2 * (w \div 2)) |-> " "]
                                         \o <<"\\", "i", "t", "e", "m", " ">> \o SubSeq(l, w + d + 3, Len(l))

\* C7 witness: a bullet indented by 3 spaces follows one indented by 2 spaces,
\* and both items are emitted behind 2 spaces.
C7_Witness ==
    /\ pc = "lists_loop" /\ i >= 2
    /\ lines[i - 1] = <<" ", " ", "-", " ", "a">>
    /\ lines[i] = <<" ", " ", " ", "-", " ", "a">>
    /\ result[Len(result) - 1] = <<" ", " ", "\\", "i", "t", "e", "m", " ", "a">>
    /\ result[Len(result)] = <<" ", " ", "\\", "i", "t", "e", "m", " ", "a">>

\* C8: the escaping pass rewrites each character once and on its own: the result
\* is the concatenation of the images of the characters of its argument.
C8_PerCharacterEscape ==
    (entry = "escape_latex_chars" /\ pc = "done") =>
        text = Cat([k \in 1..Len(input) |->
                     CASE input[k] = "&" -> <<"\\", "&">>
                       [] input[k] = "%" -> <<"\\", "%">>
                       [] input[k] = "#" -> <<"\\", "#">>
                       [] input[k] = "{" -> <<"\\", "{">>
                       [] input[k] = "}" -> <<"\\", "}">>
                       [] input[k] = "\\" -> <<"\\", "t", "e", "x", "t", "b", "a", "c", "k", "s", "l", "a", "s", "h", "{", "}">>
                       [] OTHER -> << input[k] >>])

\* C9: at every boundary of the loop of the list pass the two flags are not both
\* true and say what kind of line was processed last: both false before the
\* first line and after a non-list line, in_itemize alone after a bullet line,
\* in_enumerate alone after a numbered line.
C9_FlagsFollowLastLine ==
    pc = "lists_loop" =>
        /\ ~(in_itemize /\ in_enumerate)
        /\ i = 0 => (~in_itemize /\ ~in_enumerate)
        /\ i >= 1 => /\ in_itemize = BulletMatch(lines[i])
                     /\ in_enumerate = NumberedMatch(lines[i])

\* C9 witness: a bullet line has just been processed after a numbered line.
C9_Witness ==
    /\ pc = "lists_loop" /\ i >= 2
    /\ NumberedMatch(lines[i - 1]) /\ BulletMatch(lines[i])
    /\ in_itemize /\ ~in_enumerate

\* a line that is whitespace, '* ' and then letters only
StarBulletLine(l) ==
    LET w == RunLength(l, 1, { " ", "\t" })
    IN  /\ Len(l) >= w + 3
        /\ l[w + 1] = "*"
        /\ l[w + 2] = " "
        /\ \A q \in (w + 3)..Len(l) : l[q] \in { "a", "b" }

\* C10: when convert is given lines that are all '*' bullets with plain text, the
\* text that reaches the list pass is the input unchanged, and the list pass
\* makes of it one itemize block with one item per line.
C10_StarBulletsSurviveEmphasis ==
    (entry = "convert" /\ \A k \in 1..Len(Split(input)) : StarBulletLine(Split(input)[k])) =>
        /\ pc = "convert_lists" => text = input
        /\ pc = "preserve_whitespace" =>
               result = << BeginItemize >>
                            \o [k \in 1..Len(Split(input)) |->
                                   ItemLine(BulletGroups(Split(input)[k]))]
                            \o << EndItemize >>

=============================================================================
